---- MODULE Spec2Model ----
(***************************************************************************)
(* State-machine model of basic_bot.py: the signed request pipeline of     *)
(* BinanceFuturesClient (_sign, _request, place_order), the TWAP slicing   *)
(* loop of BasicBot.place_twap and the 'twap' branch of main.              *)
(*                                                                         *)
(* Python values are denoted as follows.                                   *)
(*  - a dict of request parameters is a sequence of <<key, value>> pairs   *)
(*    in insertion order, every value already rendered as the text that    *)
(*    urlencode sends (ints by their decimal digits);                      *)
(*  - a float quantity is the exact fraction <<num, den>> in lowest terms; *)
(*  - a JSON / result value is a record [py, key, text]: its Python type,  *)
(*    the summary key it carries (orderId, error, code or none) and text;  *)
(*  - the outcome of a call is a record [kind, exc, status, value, msg]:   *)
(*    kind "return" with the returned value, or kind "raise" with the      *)
(*    exception class, or kind "none" while no call has finished.          *)
(***************************************************************************)
EXTENDS Integers, Sequences, FiniteSets, TLC

\* ------------------------------------------------------------- bounds
MaxSlices == 3
MaxClock == 1

\* ------------------------------------------------- program constants
recv_window == 5000
ApiSecret == "secret"
ORDER_ENDPOINT == "/fapi/v1/order"
PING_ENDPOINT == "/fapi/v1/ping"
TIME_ENDPOINT == "/fapi/v1/time"

\* str.upper() on the strings the model passes as symbol, side and type.
Upper(s) ==
  CASE s = "btcusdt" -> "BTCUSDT"
    [] s = "sell" -> "SELL"
    [] s = "buy" -> "BUY"
    [] s = "limit" -> "LIMIT"
    [] s = "stop" -> "STOP"
    [] s = "get" -> "GET"
    [] OTHER -> s

\* ------------------------------------------------------ dict helpers
Has(params, k) == \E j \in 1..Len(params) : params[j][1] = k

Get(params, k) == params[CHOOSE j \in 1..Len(params) : params[j][1] = k][2]

\* dict.__setitem__: an existing key keeps its position, a new key is appended.
SetItem(params, k, v) ==
  IF Has(params, k)
  THEN [j \in 1..Len(params) |-> IF params[j][1] = k THEN <<k, v>> ELSE params[j]]
  ELSE Append(params, <<k, v>>)

\* dict.setdefault: the value is stored only when the key is absent.
setdefault(params, k, v) == IF Has(params, k) THEN params ELSE Append(params, <<k, v>>)

\* The dict without key k (used to state what a signature covers).
RECURSIVE Without(_, _)
Without(params, k) ==
  IF params = <<>> THEN <<>>
  ELSE IF Head(params)[1] = k THEN Without(Tail(params), k)
  ELSE <<Head(params)>> \o Without(Tail(params), k)

\* urllib.parse.urlencode: key=value pairs joined by & in insertion order.
RECURSIVE urlencode(_)
urlencode(params) ==
  IF params = <<>> THEN ""
  ELSE LET pair == Head(params)[1] \o "=" \o Head(params)[2]
       IN IF Len(params) = 1 THEN pair ELSE pair \o "&" \o urlencode(Tail(params))

\* hmac.new(secret, qs, sha256).hexdigest(), as an injective denotation of
\* (secret, message).
HmacHex(secret, qs) == "hmac(" \o secret \o "," \o qs \o ")"

\* -------------------------------------------------------------- values
NoVal == [py |-> "none", key |-> "", text |-> ""]
OrderJson == [py |-> "dict", key |-> "orderId", text |-> "1"]
ErrJson == [py |-> "dict", key |-> "code", text |-> "-1121"]
ListJson == [py |-> "list", key |-> "", text |-> "[]"]
TextVal(t) == [py |-> "str", key |-> "", text |-> t]
ErrorRecord(m) == [py |-> "dict", key |-> "error", text |-> m]

NoOutcome == [kind |-> "none", exc |-> "", status |-> 0, value |-> NoVal, msg |-> ""]
Return(v) == [kind |-> "return", exc |-> "", status |-> 0, value |-> v, msg |-> ""]
Raise(e, s, v, m) == [kind |-> "raise", exc |-> e, status |-> s, value |-> v, msg |-> m]

\* What the network gives back for one dispatched request: a transport
\* failure, or a status with a body that does or does not parse as JSON.
NetFail == [net |-> "fail", status |-> 0, json |-> FALSE, data |-> NoVal, text |-> ""]
Statuses == {200, 400}
Bodies ==
  { [json |-> TRUE, data |-> OrderJson, text |-> "{orderId:1}"],
    [json |-> TRUE, data |-> ErrJson, text |-> "{code:-1121}"],
    [json |-> TRUE, data |-> ListJson, text |-> "[]"],
    [json |-> FALSE, data |-> NoVal, text |-> "<html>"] }
Responses ==
  {NetFail} \cup
  { [net |-> "ok", status |-> s, json |-> b.json, data |-> b.data, text |-> b.text] :
      s \in Statuses, b \in Bodies }

\* ---------------------------------------------------- request pipeline
\* _get_timestamp at clock value now, rendered as urlencode renders it.
get_timestamp(now) == ToString(now)

SignBeforeRecvWindow(params) ==
  LET qs == urlencode(Without(params, "recvWindow"))
  IN [params |-> SetItem(params, "signature", HmacHex(ApiSecret, qs)), msg |-> qs]

\* _sign: a copy of params with 'signature' = HMAC of urlencode(params);
\* msg is the message that was signed.
sign(params) ==
  LET qs == urlencode(params)
  IN [params |-> SetItem(params, "signature", HmacHex(ApiSecret, qs)), msg |-> qs]

InjectOverwrite(params, now) ==
  SetItem(SetItem(params, "timestamp", get_timestamp(now)),
          "recvWindow", ToString(recv_window))

\* _request lines 82-83: timestamp and recvWindow are set only when absent.
\* (Python evaluates the setdefault arguments, so the clock is read anyway.)
Inject(params, now) ==
  setdefault(setdefault(params, "timestamp", get_timestamp(now)),
             "recvWindow", ToString(recv_window))

Supported(method) == Upper(method) \in {"GET", "POST", "DELETE"}

AttemptsRetry(method, resp) ==
  IF Supported(method) THEN (IF resp.net = "fail" THEN 2 ELSE 1) ELSE 0

\* _request lines 86-98: the number of HTTP requests sent for one call that
\* got response resp: one for a supported method, whatever came back.
Attempts(method, resp) == IF Supported(method) THEN 1 ELSE 0

\* _request lines 96-111: classification of what came back.
Classify(resp) ==
  IF resp.net = "fail" THEN Raise("RequestException", 0, NoVal, "network error")
  ELSE IF ~resp.json
       THEN IF resp.status >= 400
            THEN Raise("HTTPError", resp.status, NoVal,
                       ToString(resp.status) \o " Error")
            ELSE Return(TextVal(resp.text))
       ELSE IF resp.status >= 400
            THEN Raise("Exception", resp.status, resp.data,
                       "API Error " \o ToString(resp.status) \o ": " \o resp.text)
            ELSE Return(resp.data)

NoReq == [method |-> "", path |-> "", params |-> <<>>, query |-> "", signed |-> FALSE,
          msg |-> "", caller |-> <<>>, now |-> 0]

\* _request: what one call does, given the clock value and the response.
\*   req      the request handed to the session (NoReq when none was)
\*   tsReads  clock reads, signs HMAC computations, sends HTTP requests
request(method, path, params, signed, now, resp) ==
  LET final == IF signed THEN sign(Inject(params, now))
               ELSE [params |-> params, msg |-> ""]
      sends == Attempts(method, resp)
  IN [ req |-> IF sends > 0
               THEN [method |-> Upper(method), path |-> path, params |-> final.params,
                     query |-> urlencode(final.params), signed |-> signed,
                     msg |-> final.msg, caller |-> params, now |-> now]
               ELSE NoReq,
       tsReads |-> IF signed THEN 1 ELSE 0,
       signs |-> IF signed THEN 1 ELSE 0,
       sends |-> sends,
       outcome |-> IF sends = 0
                   THEN Raise("ValueError", 0, NoVal, "Unsupported HTTP method")
                   ELSE Classify(resp) ]

\* ------------------------------------------------------------ numbers
RECURSIVE Gcd(_, _)
Gcd(a, b) == IF b = 0 THEN a ELSE Gcd(b, a % b)

\* The float a / b (a >= 0, b > 0) as a fraction in lowest terms.
Frac(a, b) == LET g == Gcd(a, b) IN IF g = 0 THEN <<0, 1>> ELSE <<a \div g, b \div g>>

\* Python's None where a float is optional (no float has denominator 0).
None == <<0, 0>>

\* str(float): 25.0 -> "25.0", 3.5 -> "3.5"; a quotient with another
\* denominator is written num/den, standing for the digits of its repr.
FloatStr(q) ==
  IF q[2] = 1 THEN ToString(q[1]) \o ".0"
  ELSE IF q[2] = 2 THEN ToString(q[1] \div 2) \o ".5"
  ELSE ToString(q[1]) \o "/" \o ToString(q[2])

\* ------------------------------------------------------------ place_order
StopFamily == {"STOP", "STOP_MARKET", "TAKE_PROFIT", "TAKE_PROFIT_MARKET"}

\* place_order lines 133-159: the parameter dict, or the ValueError raised
\* while building it. o is the record of the call's arguments.
OrderParams(o) ==
  LET type == Upper(o.order_type)
      p0 == << <<"symbol", Upper(o.symbol)>>, <<"side", Upper(o.side)>>,
               <<"type", type>>, <<"quantity", FloatStr(o.quantity)>> >>
      limitBad == type = "LIMIT" /\ o.price = None
      p1 == IF type = "LIMIT"
            THEN p0 \o << <<"price", FloatStr(o.price)>>,
                          <<"timeInForce", o.time_in_force>> >>
            ELSE p0
      stopBad == type \in StopFamily /\ o.stop_price = None
      p2 == IF type \in StopFamily
            THEN SetItem(p1, "stopPrice", FloatStr(o.stop_price))
            ELSE p1
      p3 == IF type = "STOP" THEN SetItem(p2, "type", "STOP_MARKET") ELSE p2
      p4 == IF o.reduce_only THEN SetItem(p3, "reduceOnly", "true") ELSE p3
      p5 == IF o.close_position THEN SetItem(p4, "closePosition", "true") ELSE p4
  IN IF limitBad THEN [ok |-> FALSE, params |-> <<>>, msg |-> "LIMIT orders require --price"]
     ELSE IF stopBad
          THEN [ok |-> FALSE, params |-> <<>>, msg |-> "STOP orders require --stop_price"]
          ELSE [ok |-> TRUE, params |-> p5, msg |-> ""]

NoCall(exc, m) ==
  [req |-> NoReq, tsReads |-> 0, signs |-> 0, sends |-> 0,
   outcome |-> Raise(exc, 0, NoVal, m)]

PlaceOrderUnchecked(o, now, resp) ==
  LET type == Upper(o.order_type)
      p == << <<"symbol", Upper(o.symbol)>>, <<"side", Upper(o.side)>>,
              <<"type", type>>, <<"quantity", FloatStr(o.quantity)>> >>
  IN request("POST", ORDER_ENDPOINT, p, TRUE, now, resp)

\* place_order: validation first, then one signed POST to the order endpoint.
place_order(o, now, resp) ==
  LET b == OrderParams(o)
  IN IF b.ok THEN request("POST", ORDER_ENDPOINT, b.params, TRUE, now, resp)
     ELSE NoCall("ValueError", b.msg)

\* BasicBot.place_market_order: place_order with type MARKET; an exception is
\* logged and re-raised.
place_market_order(symbol, side, quantity, now, resp) ==
  place_order([symbol |-> symbol, side |-> side, order_type |-> "MARKET",
               quantity |-> quantity, price |-> None, time_in_force |-> "GTC",
               reduce_only |-> FALSE, stop_price |-> None,
               close_position |-> FALSE], now, resp)

\* ------------------------------------------------------------- place_twap
PerSliceWhole(total, slices) == Frac(total, 1)

\* place_twap line 210: per_slice = total_quantity / slices (slices > 0 here;
\* slices = 0 raises ZeroDivisionError and a negative count submits nothing).
per_slice(total, slices) == Frac(total, slices)

TwapEntryHidesFailure(out) ==
  IF out.kind = "return" THEN out.value
  ELSE IF out.exc = "RequestException" THEN OrderJson ELSE ErrorRecord(out.msg)

\* place_twap lines 214-219: the entry appended for one slice.
TwapEntry(out) == IF out.kind = "return" THEN out.value ELSE ErrorRecord(out.msg)

NeedsWaitAlways(i, slices) == i < slices

\* place_twap line 220: a sleep follows every slice but the last.
NeedsWait(i, slices) == i < slices - 1

\* time.sleep(interval) raises ValueError for a negative length.
SleepRaises(interval) == interval < 0

\* positive_float (argparse type of --quantity): v <= 0 is rejected.
positive_float_ok(v) == v > 0

\* main lines 303-305: the number of summary lines printed before the loop
\* ends, and whether r.get raised AttributeError on an entry that is no dict.
RECURSIVE PrintedLines(_)
PrintedLines(rs) ==
  IF rs = <<>> THEN 0
  ELSE IF Head(rs).py # "dict" THEN 0 ELSE 1 + PrintedLines(Tail(rs))

PrintCrashes(rs) == \E j \in 1..Len(rs) : rs[j].py # "dict"

\* ------------------------------------------------------------------ inputs
Symbols == {"btcusdt"}
Sides == {"BUY", "sell"}
CliSides == {"BUY", "SELL"}
\* The responses a TWAP slice is given: transport failure, an order, a JSON
\* body that is no object, a body that is no JSON, an exchange rejection.
TwapResponses ==
  { r \in Responses :
      \/ r.net = "fail"
      \/ r.status = 200 /\ r.data \in {OrderJson, ListJson}
      \/ r.status = 200 /\ ~r.json
      \/ r.status = 400 /\ r.data = ErrJson }
OrderTypes == {"MARKET", "limit", "STOP", "STOP_MARKET", "TAKE_PROFIT", "TAKE_PROFIT_MARKET"}
Quantities == {0, 6, 7}
SliceCounts == (0 - 1)..MaxSlices
Intervals == {0 - 1, 0, 1}
Methods == {"get", "POST", "DELETE", "PUT"}
CallerParams ==
  { <<>>,
    << <<"symbol", "BTCUSDT">> >>,
    << <<"timestamp", "77">>, <<"symbol", "BTCUSDT">> >>,
    << <<"symbol", "BTCUSDT">>, <<"recvWindow", "9000">> >>,
    << <<"recvWindow", "9000">>, <<"timestamp", "77">> >>,
    << <<"signature", "stale">>, <<"symbol", "BTCUSDT">> >> }
OrderArgs ==
  [symbol : Symbols, side : Sides, order_type : OrderTypes, quantity : {Frac(6, 1)},
   price : {None, Frac(7, 2)}, time_in_force : {"GTC"}, reduce_only : BOOLEAN,
   stop_price : {None, Frac(5, 1)}, close_position : BOOLEAN]

\* ------------------------------------------------------------------- state
VARIABLES
  pc,        \* position of the running operation
  clock,     \* time.time() in ms
  call,      \* the operation in progress or last finished, with its arguments
  i,         \* place_twap's loop index
  orders,    \* the place_market_order calls made by place_twap, in call order
  attempts,  \* how each of those calls ended, in call order
  results,   \* place_twap's results list
  events,    \* what place_twap has done so far: <<"submit", i>>, <<"done", i>>, <<"wait", i>>
  sent,      \* the HTTP requests handed to the session by this operation
  counts,    \* this operation's clock reads, HMAC computations and HTTP sends
  outcome,   \* how the operation ended (NoOutcome while it runs)
  printed,   \* 'Slice k: ...' lines printed by main
  exitCode   \* process exit status of main (-1: main has not ended)

vars == <<pc, clock, call, i, orders, attempts, results, events, sent, counts, outcome,
          printed, exitCode>>

NoCounts == [tsReads |-> 0, signs |-> 0, sends |-> 0]
Idle == [op |-> "none"]

\* A new operation starts with empty records.
Fresh ==
  /\ i' = 0
  /\ orders' = <<>>
  /\ attempts' = <<>>
  /\ results' = <<>>
  /\ events' = <<>>
  /\ printed' = 0
  /\ exitCode' = 0 - 1

Init ==
  /\ pc = "idle"
  /\ clock = 0
  /\ call = Idle
  /\ i = 0
  /\ orders = <<>>
  /\ attempts = <<>>
  /\ results = <<>>
  /\ events = <<>>
  /\ sent = <<>>
  /\ counts = NoCounts
  /\ outcome = NoOutcome
  /\ printed = 0
  /\ exitCode = 0 - 1

\* Time passes between operations.
Tick ==
  /\ pc = "idle"
  /\ clock < MaxClock
  /\ clock' = clock + 1
  /\ UNCHANGED <<pc, call, i, orders, attempts, results, events, sent, counts, outcome,
                 printed, exitCode>>

\* The effect of one finished pipeline call r on the operation's records.
Account(r) ==
  /\ sent' = IF r.sends > 0 THEN Append(sent, r.req) ELSE sent
  /\ counts' = [tsReads |-> counts.tsReads + r.tsReads,
                signs |-> counts.signs + r.signs,
                sends |-> counts.sends + r.sends]

\* A direct call of _request(method, path, params, signed).
DoRequest ==
  \E method \in Methods, params \in CallerParams, signed \in BOOLEAN, resp \in Responses :
    LET r == request(method, ORDER_ENDPOINT, params, signed, clock, resp)
    IN /\ pc = "idle"
       /\ Fresh
       /\ call' = [op |-> "request", method |-> method, params |-> params,
                   signed |-> signed, resp |-> resp]
       /\ Account(r)
       /\ outcome' = r.outcome
       /\ pc' = "done"
       /\ UNCHANGED clock

\* ping(): unsigned GET of the ping endpoint, no parameters.
Ping ==
  \E resp \in Responses :
    LET r == request("GET", PING_ENDPOINT, <<>>, FALSE, clock, resp)
    IN /\ pc = "idle"
       /\ Fresh
       /\ call' = [op |-> "ping", resp |-> resp]
       /\ Account(r)
       /\ outcome' = r.outcome
       /\ pc' = "done"
       /\ UNCHANGED clock

\* get_time(): unsigned GET of the time endpoint, no parameters.
GetTime ==
  \E resp \in Responses :
    LET r == request("GET", TIME_ENDPOINT, <<>>, FALSE, clock, resp)
    IN /\ pc = "idle"
       /\ Fresh
       /\ call' = [op |-> "get_time", resp |-> resp]
       /\ Account(r)
       /\ outcome' = r.outcome
       /\ pc' = "done"
       /\ UNCHANGED clock

\* A call of BinanceFuturesClient.place_order.
PlaceOrder ==
  \E o \in OrderArgs, resp \in Responses :
    LET r == place_order(o, clock, resp)
    IN /\ pc = "idle"
       /\ Fresh
       /\ call' = [op |-> "place_order", o |-> o, resp |-> resp]
       /\ Account(r)
       /\ outcome' = r.outcome
       /\ pc' = "done"
       /\ UNCHANGED clock

\* place_twap lines 209-211, entered from the API (entry "api") or from
\* main after parse_args (entry "cli"). argparse rejects --quantity <= 0
\* and exits with status 2 before a bot exists; --slices is any int and
\* --interval any float.
TwapStart ==
  \E entry \in {"api", "cli"}, symbol \in Symbols, side \in CliSides,
     total \in Quantities, slices \in SliceCounts, interval \in Intervals :
    /\ pc = "idle"
    /\ i' = 0
    /\ orders' = <<>>
    /\ attempts' = <<>>
    /\ results' = <<>>
    /\ events' = <<>>
    /\ printed' = 0
    /\ call' = [op |-> "twap", entry |-> entry, symbol |-> symbol, side |-> side,
                total |-> total, slices |-> slices, interval |-> interval]
    /\ sent' = <<>>
    /\ counts' = NoCounts
    /\ IF entry = "cli" /\ ~positive_float_ok(total)
       THEN /\ pc' = "exited"
            /\ exitCode' = 2
            /\ outcome' = Raise("SystemExit", 0, NoVal, "argparse error")
       ELSE /\ exitCode' = 0 - 1
            /\ IF slices = 0
               THEN /\ pc' = "raised"
                    /\ outcome' = Raise("ZeroDivisionError", 0, NoVal, "division by zero")
               ELSE /\ pc' = "loop"
                    /\ outcome' = NoOutcome
    /\ UNCHANGED clock

\* place_twap line 215 up to the network: slice i's order is handed to
\* place_market_order, which reads the clock, signs and dispatches.
TwapSubmit ==
  /\ pc = "loop"
  /\ i < call.slices
  /\ orders' = Append(orders, [symbol |-> call.symbol, side |-> call.side,
                                quantity |-> per_slice(call.total, call.slices),
                                now |-> clock])
  /\ events' = Append(events, <<"submit", i>>)
  /\ pc' = "awaiting"
  /\ UNCHANGED <<clock, call, i, attempts, results, sent, counts, outcome, printed, exitCode>>

\* place_twap lines 215-220: the response (or failure) of slice i's order
\* arrives; its entry is appended and the loop decides whether to sleep.
TwapRespond ==
  \E resp \in TwapResponses :
    LET o == orders[Len(orders)]
        r == place_market_order(o.symbol, o.side, o.quantity, o.now, resp)
    IN /\ pc = "awaiting"
       /\ Account(r)
       /\ attempts' = Append(attempts, r.outcome)
       /\ results' = Append(results, TwapEntry(r.outcome))
       /\ events' = Append(events, <<"done", i>>)
       /\ IF NeedsWait(i, call.slices)
          THEN pc' = "sleep" /\ i' = i
          ELSE pc' = "loop" /\ i' = i + 1
       /\ UNCHANGED <<clock, call, orders, outcome, printed, exitCode>>

\* place_twap line 221: time.sleep(interval); a negative interval raises
\* ValueError out of place_twap.
TwapSleep ==
  /\ pc = "sleep"
  /\ events' = Append(events, <<"wait", i>>)
  /\ IF SleepRaises(call.interval)
     THEN /\ pc' = "raised"
          /\ outcome' = Raise("ValueError", 0, NoVal, "sleep length must be non-negative")
          /\ UNCHANGED <<i, clock>>
     ELSE /\ pc' = "loop"
          /\ i' = i + 1
          /\ clock' = IF clock + call.interval > MaxClock THEN MaxClock
                      ELSE clock + call.interval
          /\ UNCHANGED outcome
  /\ UNCHANGED <<call, orders, attempts, results, sent, counts, printed, exitCode>>

\* place_twap lines 222-223: the loop is over, results is returned.
TwapReturn ==
  /\ pc = "loop"
  /\ i >= call.slices
  /\ outcome' = Return([py |-> "list", key |-> "", text |-> "results"])
  /\ pc' = "returned"
  /\ UNCHANGED <<clock, call, i, orders, attempts, results, events, sent, counts, printed,
                 exitCode>>

\* main lines 301-311 after place_twap: the summary loop, or the except
\* branch that prints 'Operation failed' and exits with status 2.
MainReport ==
  /\ pc \in {"returned", "raised"}
  /\ call.entry = "cli"
  /\ IF pc = "raised"
     THEN printed' = 0 /\ exitCode' = 2
     ELSE /\ printed' = PrintedLines(results)
          /\ exitCode' = IF PrintCrashes(results) THEN 2 ELSE 0
  /\ pc' = "exited"
  /\ UNCHANGED <<clock, call, i, orders, attempts, results, events, sent, counts, outcome>>

\* The operation is over; the next one starts from scratch.
Reset ==
  /\ \/ pc \in {"done", "exited"}
     \/ pc \in {"returned", "raised"} /\ call.entry = "api"
  /\ pc' = "idle"
  /\ call' = Idle
  /\ Fresh
  /\ sent' = <<>>
  /\ counts' = NoCounts
  /\ outcome' = NoOutcome
  /\ UNCHANGED clock

Next ==
  \/ Tick
  \/ DoRequest
  \/ Ping
  \/ GetTime
  \/ PlaceOrder
  \/ TwapStart
  \/ TwapSubmit
  \/ TwapRespond
  \/ TwapSleep
  \/ TwapReturn
  \/ MainReport
  \/ Reset

Spec == Init /\ [][Next]_vars

\* ================================================================ claims
TwapOp == call.op = "twap"

\* place_twap has been entered with a plan that meets TwapPlan's stated
\* requirements: sliceCount >= 1 and intervalSeconds >= 0.
PlanOk ==
  /\ TwapOp
  /\ outcome.exc # "SystemExit"
  /\ call.slices >= 1
  /\ call.interval >= 0

\* place_twap has returned its results list.
Finished == pc = "returned" \/ (pc = "exited" /\ outcome.kind = "return")

Submitted(k) == \E p \in 1..Len(events) : events[p] = <<"submit", k>>

Waits == Cardinality({p \in 1..Len(events) : events[p][1] = "wait"})

\* C1: a TWAP run with sliceCount >= 1 never raises, whatever slices fail:
\* its outcome list has one entry per slice in slice order, entry j is an
\* error record exactly when slice j's order attempt raised and is that
\* attempt's result otherwise, and every slice is submitted.
C1_FailureIsolation ==
  PlanOk =>
    /\ pc # "raised"
    /\ outcome.kind # "raise"
    /\ Len(results) = Len(attempts)
    /\ \A j \in 1..Len(results) :
         /\ (results[j].key = "error") <=> (attempts[j].kind = "raise")
         /\ attempts[j].kind = "return" => results[j] = attempts[j].value
         /\ attempts[j].kind = "raise" =>
              results[j] = [py |-> "dict", key |-> "error", text |-> attempts[j].msg]
    /\ Finished =>
         /\ Len(results) = call.slices
         /\ \A k \in 0..(call.slices - 1) : Submitted(k)

C1_Witness ==
  /\ PlanOk
  /\ pc = "returned"
  /\ call.slices = 3
  /\ attempts[1].kind = "return"
  /\ attempts[2].kind = "raise"
  /\ attempts[3].kind = "return"
  /\ results[3] = OrderJson

\* The order of place_twap's steps for n slices: submit, completion and
\* wait of each slice in turn, with no wait after the last.
Schedule(n) ==
  [p \in 1..(3 * n - 1) |->
     << CASE (p - 1) % 3 = 0 -> "submit" [] (p - 1) % 3 = 1 -> "done" [] OTHER -> "wait",
        (p - 1) \div 3 >>]

\* C2: slices run strictly in index order: slice i+1 is submitted only after
\* slice i's attempt has completed and the wait after it has elapsed; a
\* finished run has made exactly sliceCount-1 waits, none after the last.
C2_Sequential ==
  PlanOk =>
    /\ Len(events) <= 3 * call.slices - 1
    /\ events = SubSeq(Schedule(call.slices), 1, Len(events))
    /\ Finished => events = Schedule(call.slices) /\ Waits = call.slices - 1
    /\ \A j \in 1..(Len(orders) - 1) :
         \/ orders[j + 1].now >= orders[j].now + call.interval
         \/ orders[j + 1].now = MaxClock

C2_Witness ==
  /\ PlanOk
  /\ pc = "returned"
  /\ call.slices = 3
  /\ call.interval = 1
  /\ attempts[3].kind = "raise"
  /\ Waits = 2
  /\ events[Len(events)] = <<"done", 2>>

\* C3: a finished TWAP run of total Q in N >= 1 slices has issued exactly N
\* orders in index order, each a MARKET order for the plan's symbol and side
\* (upper-cased) and each for the quantity Q / N.
C3_EqualSlices ==
  PlanOk =>
    /\ Len(sent) = Len(attempts)
    /\ \A j \in 1..Len(orders) :
         /\ orders[j].quantity[2] > 0
         /\ orders[j].quantity[1] * call.slices = call.total * orders[j].quantity[2]
         /\ orders[j].quantity = orders[1].quantity
    /\ \A j \in 1..Len(sent) :
         /\ sent[j].method = "POST"
         /\ sent[j].path = "/fapi/v1/order"
         /\ Get(sent[j].params, "type") = "MARKET"
         /\ Get(sent[j].params, "symbol") = Upper(call.symbol)
         /\ Get(sent[j].params, "side") = Upper(call.side)
         /\ Get(sent[j].params, "quantity") = FloatStr(orders[j].quantity)
    /\ Finished => Len(orders) = call.slices /\ Len(sent) = call.slices

C3_Witness ==
  /\ PlanOk
  /\ pc = "returned"
  /\ call.total = 7
  /\ call.slices = 2
  /\ Len(sent) = 2
  /\ Get(sent[2].params, "quantity") = "3.5"

MissingPrice(o) ==
  \/ Upper(o.order_type) = "LIMIT" /\ o.price = None
  \/ Upper(o.order_type) \in {"STOP", "STOP_MARKET", "TAKE_PROFIT", "TAKE_PROFIT_MARKET"}
       /\ o.stop_price = None

\* C4: place_order of a LIMIT order without price, or of a stop-family order
\* without stopPrice, raises ValueError having sent no HTTP request, read no
\* timestamp and computed no signature.
C4_ValidationFirst ==
  (call.op = "place_order" /\ pc = "done" /\ MissingPrice(call.o)) =>
    /\ outcome.kind = "raise"
    /\ outcome.exc = "ValueError"
    /\ counts = [tsReads |-> 0, signs |-> 0, sends |-> 0]
    /\ sent = <<>>

C4_Witness ==
  /\ call.op = "place_order"
  /\ pc = "done"
  /\ call.o.order_type = "TAKE_PROFIT"
  /\ call.o.stop_price = None
  /\ call.o.price # None
  /\ outcome.exc = "ValueError"

PipelineCall == pc = "done" /\ call.op \in {"request", "ping", "get_time", "place_order"}

\* C5: the pipeline returns a value only for a JSON body with status < 400;
\* JSON with status >= 400 raises with the status and the payload; a body
\* that is no JSON raises an HTTP error for an error status and a protocol
\* error otherwise.
C5_Classification ==
  (PipelineCall /\ counts.sends > 0 /\ call.resp.net = "ok") =>
    /\ outcome.kind = "return" => call.resp.json /\ call.resp.status < 400
    /\ (call.resp.json /\ call.resp.status >= 400) =>
         /\ outcome.kind = "raise"
         /\ outcome.status = call.resp.status
         /\ outcome.value = call.resp.data
    /\ (~call.resp.json /\ call.resp.status >= 400) =>
         outcome.kind = "raise" /\ outcome.exc = "HTTPError"
    /\ (~call.resp.json /\ call.resp.status < 400) => outcome.kind = "raise"

\* C6: a signed request that is sent carries timestamp and recvWindow: the
\* caller's value when the caller gave one, else the clock at call time and
\* the client's recvWindow; an unsigned request is sent with the caller's
\* parameters and nothing more.
C6_TimestampRecvWindow ==
  \A j \in 1..Len(sent) :
    LET r == sent[j] IN
      /\ r.signed =>
           /\ Has(r.params, "timestamp")
           /\ Has(r.params, "recvWindow")
           /\ Get(r.params, "timestamp") =
                IF Has(r.caller, "timestamp") THEN Get(r.caller, "timestamp")
                ELSE ToString(r.now)
           /\ Get(r.params, "recvWindow") =
                IF Has(r.caller, "recvWindow") THEN Get(r.caller, "recvWindow")
                ELSE "5000"
           /\ pc = "done" => r.now = clock
      /\ ~r.signed => r.params = r.caller

C6_Witness ==
  /\ call.op = "request"
  /\ pc = "done"
  /\ call.signed
  /\ Len(sent) = 1
  /\ Has(call.params, "timestamp")
  /\ ~Has(call.params, "recvWindow")
  /\ Get(sent[1].params, "timestamp") = "77"
  /\ Get(sent[1].params, "recvWindow") = "5000"

\* C7: for a signed request whose caller parameters hold no 'signature', the
\* signed message is the serialization of every transmitted parameter but
\* 'signature', in the order sent; 'signature' is appended last and is the
\* HMAC of that message, and the query sent is the serialization of exactly
\* these parameters.
C7_SignatureCoversSent ==
  \A j \in 1..Len(sent) :
    LET r == sent[j]
        body == Without(r.params, "signature")
    IN (r.signed /\ ~Has(r.caller, "signature")) =>
         /\ r.msg = urlencode(body)
         /\ Has(body, "timestamp") /\ Has(body, "recvWindow")
         /\ r.params = Append(body, <<"signature", HmacHex(ApiSecret, r.msg)>>)
         /\ r.query = r.msg \o "&signature=" \o HmacHex(ApiSecret, r.msg)

C7_Witness ==
  /\ call.op = "place_order"
  /\ pc = "done"
  /\ Len(sent) = 1
  /\ Upper(call.o.order_type) = "LIMIT"
  /\ call.o.reduce_only
  /\ sent[1].msg =
       "symbol=BTCUSDT&side=SELL&type=LIMIT&quantity=6.0&price=3.5&timeInForce=GTC&reduceOnly=true&timestamp=1&recvWindow=5000"

\* C8: a TWAP run fails exactly when its plan is invalid (sliceCount < 1 or
\* totalQuantity <= 0), and then before any order is sent. (Stated for runs
\* with a non-negative interval.)
C8_FailsIffInvalidPlan ==
  (TwapOp /\ pc \in {"returned", "raised", "exited"} /\ call.interval >= 0) =>
    LET invalid == call.slices < 1 \/ call.total <= 0
    IN /\ (outcome.kind = "raise") <=> invalid
       /\ invalid => counts.sends = 0

\* C9: the twap command, once place_twap has returned, prints one summary
\* line per slice and does not exit with a non-zero status, whatever the
\* pipeline returned for each slice.
C9_TwapCommandSucceeds ==
  (PlanOk /\ call.entry = "cli" /\ pc = "exited") =>
    /\ exitCode = 0
    /\ printed = call.slices

\* C10: one call of _request with GET, POST or DELETE sends exactly one HTTP
\* request and a transport failure is raised at once; a TWAP run has sent
\* one request per attempted slice, sliceCount in all when it has finished.
C10_SingleAttempt ==
  /\ (PipelineCall /\ call.op = "request" /\ Upper(call.method) \in {"GET", "POST", "DELETE"}) =>
       counts.sends = 1 /\ Len(sent) = 1
  /\ (PipelineCall /\ call.op \in {"ping", "get_time"}) => counts.sends = 1 /\ Len(sent) = 1
  /\ (PipelineCall /\ call.op = "place_order" /\ ~MissingPrice(call.o)) =>
       counts.sends = 1 /\ Len(sent) = 1
  /\ (PipelineCall /\ counts.sends > 0 /\ call.resp.net = "fail") =>
       outcome.kind = "raise" /\ outcome.exc = "RequestException"
  /\ PlanOk =>
       /\ counts.sends = Len(attempts)
       /\ Len(sent) = Len(attempts)
       /\ Finished => counts.sends = call.slices

C10_Witness ==
  /\ PlanOk
  /\ pc = "returned"
  /\ call.slices = 3
  /\ attempts[1].exc = "RequestException"
  /\ attempts[2].exc = "Exception"
  /\ attempts[3].exc = "RequestException"
  /\ counts.sends = 3
====
